---- MODULE Spec2Model ----
(***************************************************************************)
(* Epic Events CRM: the role guard (app/auth.py) and the entity managers   *)
(* for users, clients, contracts and events, as a state machine over the   *)
(* database rows.  Every manager call is one atomic step (one db.commit()  *)
(* per call, on a session opened for that call and closed after it); a     *)
(* call that raises leaves the rows as they were.  As in app/cli_app.py, a *)
(* call is made from a menu, its result or exception is shown (`last`),    *)
(* and the prompt "Appuyez sur Entree pour continuer..." leads back to the *)
(* menu.  The notifications of the managers go to sentry_sdk; what a call  *)
(* sent is kept with its result (last.sink).  Spec has a notification sink *)
(* that accepts every message, SpecSinkDown one that may raise.            *)
(*                                                                         *)
(* Columns that no check of the managers reads (names, dates, location,    *)
(* attendees, notes) are not carried.     Amounts are whole numbers.        *)
(* Client.last_update (onupdate=func.now()) is not carried as a value: a    *)
(* call whose UPDATE sets it to the time of the call says so in its result *)
(* (last.onupdate).                                                        *)
(***************************************************************************)
EXTENDS Integers, Sequences, FiniteSets, TLC

VARIABLES
    users,       \* id -> [role, is_superuser]          (table users)
    nextUserId,  \* next primary key of table users
    clients,     \* sequence, index = id: [email, phone_number, sales_contact_id]
    contracts,   \* sequence, index = id: [status, total_amount, remaining_amount, client_id]
    events,      \* sequence, index = id: [contract_id, support_contact_id]
    last,        \* the call being shown: [op, actor, target, outcome, msg, ret, sink, onupdate]; op "menu": none
    token_file,  \* content of the file .epicevents_token (the session slot)
    now,         \* datetime.now(UTC), in units of 24 hours
    sessions     \* update_contract calls of other processes between their read and their commit

vars == <<users, nextUserId, clients, contracts, events, last, token_file, now, sessions>>
db == <<users, nextUserId, clients, contracts, events>>
aux == <<token_file, now, sessions>>

----------------------------------------------------------------------------
(* Bounds of the model *)

MaxUsers == 2
MaxClients == 1
MaxContracts == 1
MaxEvents == 1
MaxAmount == 2
\* keywords passed in one **kwargs
MaxKeys == 2

----------------------------------------------------------------------------
(* Values *)

Roles == {"sales", "support", "gestion"}

\* support_contact_id IS NULL
NULL == 0

ExistingUsers == DOMAIN users

\* ids a caller may pass: the possible rows and one id that is never a row
AnyClientId == 1..(MaxClients + 1)
AnyContractId == 1..(MaxContracts + 1)
AnyEventId == 1..(MaxEvents + 1)
AnyUserId == 1..(MaxUsers + 1)

Emails == { <<"a", "@", "b", ".", "c">>, <<"d", "@", "e", ".", "f">>, <<"a", "@", "b">> }
UserEmails == { <<"a", "@", "b", ".", "c">>, <<"a", ".", "b", "@", "c">> }
Phones == { <<"+", "3", "3">>, <<"x">> }
Digits == {"0", "1", "2", "3", "4", "5", "6", "7", "8", "9"}
Statuses == {"pending", "signed", "cancelled"}
Amounts == (0 - 1)..MaxAmount

\* **kwargs: a keyword is absent ({}) or present with one value ({v})
Opt(S) == {{}} \cup {{x} : x \in S}
Has(o) == o # {}
Val(o) == CHOOSE x \in o : TRUE
Keys(kw) == {f \in DOMAIN kw : Has(kw[f])}
UpTo(n, kwargs) == {kw \in kwargs : Cardinality(Keys(kw)) <= n}

\* re.match(r'^[^@]+@[^@]+\.[^@]+$', email)
EmailMatch(e) ==
    \E i \in 1..Len(e), j \in 1..Len(e) :
        /\ 1 < i /\ i + 1 < j /\ j < Len(e)
        /\ e[i] = "@" /\ e[j] = "."
        /\ \A k \in 1..Len(e) : k # i => e[k] # "@"

\* re.search(r'\d', phone)
PhoneMatch(p) == \E i \in 1..Len(p) : p[i] \in Digits

----------------------------------------------------------------------------
(* The guard *)

require_role_open(allowed_roles, u) == TRUE

\* superusers pass; otherwise the role name must be in the allow-list
require_role(allowed_roles, u) ==
    \/ users[u].is_superuser
    \/ users[u].role \in allowed_roles

AtMenu ==
    [op |-> "menu", actor |-> 0, target |-> 0, outcome |-> "OK", msg |-> "", ret |-> {},
     sink |-> "none", onupdate |-> {}]

\* a call that raised: nothing is committed
Raise(op, u, id, exc) ==
    /\ last = AtMenu
    /\ last' = [op |-> op, actor |-> u, target |-> id, outcome |-> exc, msg |-> "",
                ret |-> {}, sink |-> "none", onupdate |-> {}]
    /\ UNCHANGED db

\* raise ValueError(msg) of the contract manager, with the message it carries
ValueError(op, u, id, msg) ==
    /\ last = AtMenu
    /\ last' = [op |-> op, actor |-> u, target |-> id, outcome |-> "ValidationError",
                msg |-> msg, ret |-> {}, sink |-> "none", onupdate |-> {}]
    /\ UNCHANGED db

Return(op, u, id, rows) ==
    /\ last = AtMenu
    /\ last' = [op |-> op, actor |-> u, target |-> id, outcome |-> "OK", msg |-> "",
                ret |-> rows, sink |-> "none", onupdate |-> {}]

\* a call that returned after a commit whose UPDATE set the onupdate columns cols
Updated(op, u, id, rows, cols) ==
    /\ last = AtMenu
    /\ last' = [op |-> op, actor |-> u, target |-> id, outcome |-> "OK", msg |-> "",
                ret |-> rows, sink |-> "none", onupdate |-> cols]

\* sentry_sdk.capture_message(...) after the commit, then the return; the call
\* is not inside a try: when the sink raises (sink_up = FALSE), the exception
\* leaves the manager in place of the result
capture_message(op, u, id, rows, sink_up) ==
    /\ last = AtMenu
    /\ last' = IF sink_up
               THEN [op |-> op, actor |-> u, target |-> id, outcome |-> "OK", msg |-> "",
                     ret |-> rows, sink |-> "sent", onupdate |-> {}]
               ELSE [op |-> op, actor |-> u, target |-> id, outcome |-> "SinkError",
                     msg |-> "", ret |-> {}, sink |-> "failed", onupdate |-> {}]

\* input("Appuyez sur Entree pour continuer...")
continue_prompt ==
    /\ last # AtMenu
    /\ last' = AtMenu
    /\ UNCHANGED db
    /\ UNCHANGED aux

----------------------------------------------------------------------------
(* Clients: app/managers/client.py *)

get_client(client_id) == client_id \in 1..Len(clients)

\* UNIQUE(email) of table clients, checked by the commit
ClientEmailTaken(email, except) ==
    \E c \in 1..Len(clients) : c # except /\ clients[c].email = email

create_client_for_first_user(u, phone, email) ==
    IF ~require_role({"sales", "gestion"}, u)
    THEN Raise("create_client", u, 0, "PermissionError")
    ELSE IF ~EmailMatch(email)
    THEN Raise("create_client", u, 0, "ValidationError")
    ELSE IF ~PhoneMatch(phone)
    THEN Raise("create_client", u, 0, "ValidationError")
    ELSE IF ClientEmailTaken(email, 0)
    THEN Raise("create_client", u, 0, "IntegrityError")
    ELSE /\ Len(clients) < MaxClients
         /\ clients' = Append(clients,
                [email |-> email, phone_number |-> phone,
                 sales_contact_id |-> CHOOSE x \in ExistingUsers : \A y \in ExistingUsers : x <= y])
         /\ Return("create_client", u, 0, {Len(clients) + 1})
         /\ UNCHANGED <<users, nextUserId, contracts, events>>

create_client(u, phone, email) ==
    IF ~require_role({"sales", "gestion"}, u)
    THEN Raise("create_client", u, 0, "PermissionError")
    ELSE IF ~EmailMatch(email)
    THEN Raise("create_client", u, 0, "ValidationError")
    ELSE IF ~PhoneMatch(phone)
    THEN Raise("create_client", u, 0, "ValidationError")
    ELSE IF ClientEmailTaken(email, 0)
    THEN Raise("create_client", u, 0, "IntegrityError")
    ELSE /\ Len(clients) < MaxClients
         /\ clients' = Append(clients,
                [email |-> email, phone_number |-> phone, sales_contact_id |-> u])
         /\ Return("create_client", u, 0, {Len(clients) + 1})
         /\ UNCHANGED <<users, nextUserId, contracts, events>>

list_clients_rows_support_none(u) ==
    IF users[u].role = "sales"
    THEN {c \in 1..Len(clients) : clients[c].sales_contact_id = u}
    ELSE IF users[u].role = "support"
    THEN {}
    ELSE 1..Len(clients)

list_clients_rows(u) ==
    IF users[u].role = "sales"
    THEN {c \in 1..Len(clients) : clients[c].sales_contact_id = u}
    ELSE 1..Len(clients)

list_clients_guarded(u) ==
    IF ~require_role({"sales", "gestion"}, u)
    THEN Raise("list_clients", u, 0, "PermissionError")
    ELSE /\ Return("list_clients", u, 0, list_clients_rows(u))
         /\ UNCHANGED db

list_clients(u) ==
    /\ Return("list_clients", u, 0, list_clients_rows(u))
    /\ UNCHANGED db

ClientKwargs ==
    [email : Opt(Emails), phone_number : Opt(Phones),
     sales_contact_id : Opt(ExistingUsers), bogus : Opt({0})]

\* the setattr loop: only attributes of Client are written
PatchClient_replace(c, kw) ==
    [email |-> IF Has(kw.email) THEN Val(kw.email) ELSE c.email,
     phone_number |-> IF Has(kw.phone_number) THEN Val(kw.phone_number) ELSE <<>>,
     sales_contact_id |-> IF Has(kw.sales_contact_id) THEN Val(kw.sales_contact_id)
                          ELSE c.sales_contact_id]

PatchClient(c, kw) ==
    [email |-> IF Has(kw.email) THEN Val(kw.email) ELSE c.email,
     phone_number |-> IF Has(kw.phone_number) THEN Val(kw.phone_number) ELSE c.phone_number,
     sales_contact_id |-> IF Has(kw.sales_contact_id) THEN Val(kw.sales_contact_id)
                          ELSE c.sales_contact_id]

\* the UPDATE of the commit: last_update has onupdate=func.now(), so the UPDATE
\* of a client sets it as well; no UPDATE is sent for a row none of whose
\* columns changed
onupdate(old, new) == IF new # old THEN {"last_update"} ELSE {}

update_client(u, client_id, kw) ==
    IF ~require_role({"sales", "gestion"}, u)
    THEN Raise("update_client", u, client_id, "PermissionError")
    ELSE IF ~get_client(client_id)
    THEN Raise("update_client", u, client_id, "NotFoundError")
    ELSE IF users[u].role = "sales" /\ clients[client_id].sales_contact_id # u
    THEN Raise("update_client", u, client_id, "PermissionError")
    ELSE IF Has(kw.email) /\ ~EmailMatch(Val(kw.email))
    THEN Raise("update_client", u, client_id, "ValidationError")
    ELSE IF Has(kw.phone_number) /\ ~PhoneMatch(Val(kw.phone_number))
    THEN Raise("update_client", u, client_id, "ValidationError")
    ELSE IF Has(kw.email) /\ ClientEmailTaken(Val(kw.email), client_id)
    THEN Raise("update_client", u, client_id, "IntegrityError")
    ELSE /\ clients' = [clients EXCEPT ![client_id] = PatchClient(@, kw)]
         /\ Updated("update_client", u, client_id, {client_id},
                    onupdate(clients[client_id], PatchClient(clients[client_id], kw)))
         /\ UNCHANGED <<users, nextUserId, contracts, events>>

----------------------------------------------------------------------------
(* Users: app/managers/user.py *)

MinPasswordLen == 8
Passwords == {"password123", "short"}
Departments == {"gestion", "it"}
valid_departments == {"sales", "support", "gestion"}

get_user_by_id(user_id) == user_id \in ExistingUsers

\* role_id is written as the role's name: table roles holds exactly the three
\* roles of init_db.py, and a caller passes the id of one of them
create_user(u, email, password, department, role_id, sink_up) ==
    IF ~require_role({"gestion"}, u)
    THEN Raise("create_user", u, 0, "PermissionError")
    ELSE IF ~EmailMatch(email)
    THEN Raise("create_user", u, 0, "ValidationError")
    ELSE IF Len(password) < MinPasswordLen
    THEN Raise("create_user", u, 0, "ValidationError")
    ELSE IF department \notin valid_departments
    THEN Raise("create_user", u, 0, "ValidationError")
    ELSE /\ nextUserId <= MaxUsers
         /\ users' = (nextUserId :> [role |-> role_id, is_superuser |-> FALSE]) @@ users
         /\ nextUserId' = nextUserId + 1
         /\ capture_message("create_user", u, 0, {nextUserId}, sink_up)
         /\ UNCHANGED <<clients, contracts, events>>

list_users(u) ==
    IF ~require_role({"gestion"}, u)
    THEN Raise("list_users", u, 0, "PermissionError")
    ELSE /\ Return("list_users", u, 0, ExistingUsers)
         /\ UNCHANGED db

UserKwargs ==
    [email : Opt(UserEmails), department : Opt(Departments), role_id : Opt(Roles),
     is_superuser : Opt(BOOLEAN), bogus : Opt({0})]

\* the setattr loop: only attributes of User are written
PatchUser(usr, kw) ==
    [role |-> IF Has(kw.role_id) THEN Val(kw.role_id) ELSE usr.role,
     is_superuser |-> IF Has(kw.is_superuser) THEN Val(kw.is_superuser)
                      ELSE usr.is_superuser]

update_user(u, user_id, kw, sink_up) ==
    IF ~require_role({"gestion"}, u)
    THEN Raise("update_user", u, user_id, "PermissionError")
    ELSE IF ~get_user_by_id(user_id)
    THEN Raise("update_user", u, user_id, "NotFoundError")
    ELSE IF Has(kw.email) /\ ~EmailMatch(Val(kw.email))
    THEN Raise("update_user", u, user_id, "ValidationError")
    ELSE IF Has(kw.department) /\ Val(kw.department) \notin valid_departments
    THEN Raise("update_user", u, user_id, "ValidationError")
    ELSE /\ users' = [users EXCEPT ![user_id] = PatchUser(@, kw)]
         /\ capture_message("update_user", u, user_id, {user_id}, sink_up)
         /\ UNCHANGED <<nextUserId, clients, contracts, events>>

delete_user_unguarded(u, user_id) ==
    IF ~get_user_by_id(user_id)
    THEN Raise("delete_user", u, user_id, "NotFoundError")
    ELSE IF \E c \in 1..Len(clients) : clients[c].sales_contact_id = user_id
    THEN Raise("delete_user", u, user_id, "IntegrityError")
    ELSE /\ users' = [x \in ExistingUsers \ {user_id} |-> users[x]]
         /\ events' = [e \in 1..Len(events) |->
                          IF events[e].support_contact_id = user_id
                          THEN [events[e] EXCEPT !.support_contact_id = NULL]
                          ELSE events[e]]
         /\ Return("delete_user", u, user_id, {})
         /\ UNCHANGED <<nextUserId, clients, contracts>>

\* db.delete(user): the rows that reference the user are set to NULL by the
\* flush; clients.sales_contact_id is NOT NULL (Mapped[int]), so the commit of
\* a user who still owns clients fails; events.support_contact_id is nullable
delete_user(u, user_id) ==
    IF ~require_role({"gestion"}, u)
    THEN Raise("delete_user", u, user_id, "PermissionError")
    ELSE IF ~get_user_by_id(user_id)
    THEN Raise("delete_user", u, user_id, "NotFoundError")
    ELSE IF \E c \in 1..Len(clients) : clients[c].sales_contact_id = user_id
    THEN Raise("delete_user", u, user_id, "IntegrityError")
    ELSE /\ users' = [x \in ExistingUsers \ {user_id} |-> users[x]]
         /\ events' = [e \in 1..Len(events) |->
                          IF events[e].support_contact_id = user_id
                          THEN [events[e] EXCEPT !.support_contact_id = NULL]
                          ELSE events[e]]
         /\ Return("delete_user", u, user_id, {})
         /\ UNCHANGED <<nextUserId, clients, contracts>>

----------------------------------------------------------------------------
(* Contracts: app/managers/contract.py *)

get_contract(contract_id) == contract_id \in 1..Len(contracts)

create_contract_no_cross_check(u, status, total_amount, remaining_amount, client_id) ==
    IF ~require_role({"gestion"}, u)
    THEN Raise("create_contract", u, client_id, "PermissionError")
    ELSE IF ~get_client(client_id)
    THEN Raise("create_contract", u, client_id, "NotFoundError")
    ELSE IF total_amount <= 0
    THEN ValueError("create_contract", u, client_id, "Le montant total doit etre positif")
    ELSE IF remaining_amount < 0
    THEN ValueError("create_contract", u, client_id, "Le montant restant ne peut etre negatif")
    ELSE /\ Len(contracts) < MaxContracts
         /\ contracts' = Append(contracts,
                [status |-> status, total_amount |-> total_amount,
                 remaining_amount |-> remaining_amount, client_id |-> client_id])
         /\ Return("create_contract", u, client_id, {Len(contracts) + 1})
         /\ UNCHANGED <<users, nextUserId, clients, events>>

create_contract_default_pending(u, status, total_amount, remaining_amount, client_id) ==
    IF ~require_role({"gestion"}, u)
    THEN Raise("create_contract", u, client_id, "PermissionError")
    ELSE IF ~get_client(client_id)
    THEN Raise("create_contract", u, client_id, "NotFoundError")
    ELSE IF total_amount <= 0
    THEN ValueError("create_contract", u, client_id, "Le montant total doit etre positif")
    ELSE IF remaining_amount < 0
    THEN ValueError("create_contract", u, client_id, "Le montant restant ne peut etre negatif")
    ELSE IF remaining_amount > total_amount
    THEN ValueError("create_contract", u, client_id,
                    "Le montant restant ne peut depasser le montant total")
    ELSE /\ Len(contracts) < MaxContracts
         /\ contracts' = Append(contracts,
                [status |-> "pending", total_amount |-> total_amount,
                 remaining_amount |-> remaining_amount, client_id |-> client_id])
         /\ Return("create_contract", u, client_id, {Len(contracts) + 1})
         /\ UNCHANGED <<users, nextUserId, clients, events>>

create_contract(u, status, total_amount, remaining_amount, client_id) ==
    IF ~require_role({"gestion"}, u)
    THEN Raise("create_contract", u, client_id, "PermissionError")
    ELSE IF ~get_client(client_id)
    THEN Raise("create_contract", u, client_id, "NotFoundError")
    ELSE IF total_amount <= 0
    THEN ValueError("create_contract", u, client_id, "Le montant total doit etre positif")
    ELSE IF remaining_amount < 0
    THEN ValueError("create_contract", u, client_id, "Le montant restant ne peut etre negatif")
    ELSE IF remaining_amount > total_amount
    THEN ValueError("create_contract", u, client_id,
                    "Le montant restant ne peut depasser le montant total")
    ELSE /\ Len(contracts) < MaxContracts
         /\ contracts' = Append(contracts,
                [status |-> status, total_amount |-> total_amount,
                 remaining_amount |-> remaining_amount, client_id |-> client_id])
         /\ Return("create_contract", u, client_id, {Len(contracts) + 1})
         /\ UNCHANGED <<users, nextUserId, clients, events>>

ContractKwargs ==
    [status : Opt(Statuses), total_amount : Opt(0..MaxAmount), remaining_amount : Opt(Amounts),
     client_id : Opt(1..Len(clients)), bogus : Opt({0})]

PatchContract_amounts_only(k, kw) ==
    [status |-> k.status,
     total_amount |-> IF Has(kw.total_amount) THEN Val(kw.total_amount) ELSE k.total_amount,
     remaining_amount |-> IF Has(kw.remaining_amount) THEN Val(kw.remaining_amount)
                          ELSE k.remaining_amount,
     client_id |-> IF Has(kw.client_id) THEN Val(kw.client_id) ELSE k.client_id]

\* the setattr loop: only attributes of Contract are written
PatchContract(k, kw) ==
    [status |-> IF Has(kw.status) THEN Val(kw.status) ELSE k.status,
     total_amount |-> IF Has(kw.total_amount) THEN Val(kw.total_amount) ELSE k.total_amount,
     remaining_amount |-> IF Has(kw.remaining_amount) THEN Val(kw.remaining_amount)
                          ELSE k.remaining_amount,
     client_id |-> IF Has(kw.client_id) THEN Val(kw.client_id) ELSE k.client_id]

new_remaining_stored(k, kw) == k.remaining_amount

new_total_stored(k, kw) == k.total_amount

\* kwargs.get('total_amount', contract.total_amount) and its twin
new_total(k, kw) == IF Has(kw.total_amount) THEN Val(kw.total_amount) ELSE k.total_amount
new_remaining(k, kw) ==
    IF Has(kw.remaining_amount) THEN Val(kw.remaining_amount) ELSE k.remaining_amount

update_contract_any_sales(u, contract_id, kw, sink_up) ==
    IF ~require_role({"sales", "gestion"}, u)
    THEN Raise("update_contract", u, contract_id, "PermissionError")
    ELSE IF ~get_contract(contract_id)
    THEN Raise("update_contract", u, contract_id, "NotFoundError")
    ELSE IF Has(kw.status) /\ Val(kw.status) \notin {"pending", "signed"}
    THEN ValueError("update_contract", u, contract_id, "Le statut doit etre 'pending' ou 'signed'")
    ELSE IF Has(kw.total_amount) /\ Val(kw.total_amount) <= 0
    THEN ValueError("update_contract", u, contract_id, "Le montant total doit etre positif")
    ELSE IF Has(kw.remaining_amount) /\ Val(kw.remaining_amount) < 0
    THEN ValueError("update_contract", u, contract_id, "Le montant restant ne peut etre negatif")
    ELSE IF new_remaining(contracts[contract_id], kw) > new_total(contracts[contract_id], kw)
    THEN ValueError("update_contract", u, contract_id,
                    "Le montant restant ne peut depasser le montant total")
    ELSE /\ contracts' = [contracts EXCEPT ![contract_id] = PatchContract(@, kw)]
         /\ IF PatchContract(contracts[contract_id], kw).status = "signed"
                  /\ contracts[contract_id].status # "signed"
            THEN capture_message("update_contract", u, contract_id, {contract_id}, sink_up)
            ELSE Return("update_contract", u, contract_id, {contract_id})
         /\ UNCHANGED <<users, nextUserId, clients, events>>

update_contract_notify_when_signed(u, contract_id, kw, sink_up) ==
    IF ~require_role({"sales", "gestion"}, u)
    THEN Raise("update_contract", u, contract_id, "PermissionError")
    ELSE IF ~get_contract(contract_id)
    THEN Raise("update_contract", u, contract_id, "NotFoundError")
    ELSE IF /\ users[u].role = "sales"
            /\ clients[contracts[contract_id].client_id].sales_contact_id # u
    THEN Raise("update_contract", u, contract_id, "PermissionError")
    ELSE IF Has(kw.status) /\ Val(kw.status) \notin {"pending", "signed"}
    THEN ValueError("update_contract", u, contract_id, "Le statut doit etre 'pending' ou 'signed'")
    ELSE IF Has(kw.total_amount) /\ Val(kw.total_amount) <= 0
    THEN ValueError("update_contract", u, contract_id, "Le montant total doit etre positif")
    ELSE IF Has(kw.remaining_amount) /\ Val(kw.remaining_amount) < 0
    THEN ValueError("update_contract", u, contract_id, "Le montant restant ne peut etre negatif")
    ELSE IF new_remaining(contracts[contract_id], kw) > new_total(contracts[contract_id], kw)
    THEN ValueError("update_contract", u, contract_id,
                    "Le montant restant ne peut depasser le montant total")
    ELSE /\ contracts' = [contracts EXCEPT ![contract_id] = PatchContract(@, kw)]
         /\ IF PatchContract(contracts[contract_id], kw).status = "signed"
            THEN capture_message("update_contract", u, contract_id, {contract_id}, sink_up)
            ELSE Return("update_contract", u, contract_id, {contract_id})
         /\ UNCHANGED <<users, nextUserId, clients, events>>

\* old_status is read before the setattr loop, contract.status after the commit
update_contract(u, contract_id, kw, sink_up) ==
    IF ~require_role({"sales", "gestion"}, u)
    THEN Raise("update_contract", u, contract_id, "PermissionError")
    ELSE IF ~get_contract(contract_id)
    THEN Raise("update_contract", u, contract_id, "NotFoundError")
    ELSE IF /\ users[u].role = "sales"
            /\ clients[contracts[contract_id].client_id].sales_contact_id # u
    THEN Raise("update_contract", u, contract_id, "PermissionError")
    ELSE IF Has(kw.status) /\ Val(kw.status) \notin {"pending", "signed"}
    THEN ValueError("update_contract", u, contract_id, "Le statut doit etre 'pending' ou 'signed'")
    ELSE IF Has(kw.total_amount) /\ Val(kw.total_amount) <= 0
    THEN ValueError("update_contract", u, contract_id, "Le montant total doit etre positif")
    ELSE IF Has(kw.remaining_amount) /\ Val(kw.remaining_amount) < 0
    THEN ValueError("update_contract", u, contract_id, "Le montant restant ne peut etre negatif")
    ELSE IF new_remaining(contracts[contract_id], kw) > new_total(contracts[contract_id], kw)
    THEN ValueError("update_contract", u, contract_id,
                    "Le montant restant ne peut depasser le montant total")
    ELSE /\ contracts' = [contracts EXCEPT ![contract_id] = PatchContract(@, kw)]
         /\ IF PatchContract(contracts[contract_id], kw).status = "signed"
                  /\ contracts[contract_id].status # "signed"
            THEN capture_message("update_contract", u, contract_id, {contract_id}, sink_up)
            ELSE Return("update_contract", u, contract_id, {contract_id})
         /\ UNCHANGED <<users, nextUserId, clients, events>>

list_contracts_rows_all(u) == 1..Len(contracts)

list_contracts_rows(u) ==
    IF users[u].role = "gestion"
    THEN 1..Len(contracts)
    ELSE IF users[u].role = "support"
    THEN 1..Len(contracts)
    ELSE {k \in 1..Len(contracts) : clients[contracts[k].client_id].sales_contact_id = u}

list_contracts(u) ==
    IF ~require_role({"gestion", "support", "sales"}, u)
    THEN Raise("list_contracts", u, 0, "PermissionError")
    ELSE /\ Return("list_contracts", u, 0, list_contracts_rows(u))
         /\ UNCHANGED db

----------------------------------------------------------------------------
(* Events: app/crud/crud_event.py *)

get_event(event_id) == event_id \in 1..Len(events)

create_event_any_status(u, contract_id) ==
    IF ~require_role({"sales"}, u)
    THEN Raise("create_event", u, contract_id, "PermissionError")
    ELSE IF ~get_contract(contract_id)
    THEN Raise("create_event", u, contract_id, "NotFoundError")
    ELSE IF clients[contracts[contract_id].client_id].sales_contact_id # u
    THEN Raise("create_event", u, contract_id, "PermissionError")
    ELSE /\ Len(events) < MaxEvents
         /\ events' = Append(events,
                [contract_id |-> contract_id, support_contact_id |-> NULL])
         /\ Return("create_event", u, contract_id, {Len(events) + 1})
         /\ UNCHANGED <<users, nextUserId, clients, contracts>>

create_event_owner_first(u, contract_id) ==
    IF ~require_role({"sales"}, u)
    THEN Raise("create_event", u, contract_id, "PermissionError")
    ELSE IF ~get_contract(contract_id)
    THEN Raise("create_event", u, contract_id, "NotFoundError")
    ELSE IF clients[contracts[contract_id].client_id].sales_contact_id # u
    THEN Raise("create_event", u, contract_id, "PermissionError")
    ELSE IF contracts[contract_id].status # "signed"
    THEN Raise("create_event", u, contract_id, "ValidationError")
    ELSE /\ Len(events) < MaxEvents
         /\ events' = Append(events,
                [contract_id |-> contract_id, support_contact_id |-> NULL])
         /\ Return("create_event", u, contract_id, {Len(events) + 1})
         /\ UNCHANGED <<users, nextUserId, clients, contracts>>

create_event(u, contract_id) ==
    IF ~require_role({"sales"}, u)
    THEN Raise("create_event", u, contract_id, "PermissionError")
    ELSE IF ~get_contract(contract_id)
    THEN Raise("create_event", u, contract_id, "NotFoundError")
    ELSE IF contracts[contract_id].status # "signed"
    THEN Raise("create_event", u, contract_id, "ValidationError")
    ELSE IF clients[contracts[contract_id].client_id].sales_contact_id # u
    THEN Raise("create_event", u, contract_id, "PermissionError")
    ELSE /\ Len(events) < MaxEvents
         /\ events' = Append(events,
                [contract_id |-> contract_id, support_contact_id |-> NULL])
         /\ Return("create_event", u, contract_id, {Len(events) + 1})
         /\ UNCHANGED <<users, nextUserId, clients, contracts>>

EventKwargs ==
    [support_contact_id : Opt(ExistingUsers), contract_id : Opt(1..Len(contracts)),
     bogus : Opt({0})]

\* the setattr loop: only attributes of Event are written
PatchEvent(e, kw) ==
    [contract_id |-> IF Has(kw.contract_id) THEN Val(kw.contract_id) ELSE e.contract_id,
     support_contact_id |-> IF Has(kw.support_contact_id) THEN Val(kw.support_contact_id)
                            ELSE e.support_contact_id]

update_event_support_any(u, event_id, kw) ==
    IF ~require_role({"support", "gestion"}, u)
    THEN Raise("update_event", u, event_id, "PermissionError")
    ELSE IF ~get_event(event_id)
    THEN Raise("update_event", u, event_id, "NotFoundError")
    ELSE IF users[u].role = "support" /\ events[event_id].support_contact_id \notin {u, NULL}
    THEN Raise("update_event", u, event_id, "PermissionError")
    ELSE /\ events' = [events EXCEPT ![event_id] = PatchEvent(@, kw)]
         /\ Return("update_event", u, event_id, {event_id})
         /\ UNCHANGED <<users, nextUserId, clients, contracts>>

update_event(u, event_id, kw) ==
    IF ~require_role({"support", "gestion"}, u)
    THEN Raise("update_event", u, event_id, "PermissionError")
    ELSE IF ~get_event(event_id)
    THEN Raise("update_event", u, event_id, "NotFoundError")
    ELSE IF users[u].role = "support" /\ events[event_id].support_contact_id # u
    THEN Raise("update_event", u, event_id, "PermissionError")
    ELSE /\ events' = [events EXCEPT ![event_id] = PatchEvent(@, kw)]
         /\ Return("update_event", u, event_id, {event_id})
         /\ UNCHANGED <<users, nextUserId, clients, contracts>>

list_events_rows_support_all(u) ==
    IF users[u].role = "gestion"
    THEN 1..Len(events)
    ELSE IF users[u].role = "support"
    THEN 1..Len(events)
    ELSE {e \in 1..Len(events) :
            clients[contracts[events[e].contract_id].client_id].sales_contact_id = u}

list_events_rows(u) ==
    IF users[u].role = "gestion"
    THEN 1..Len(events)
    ELSE IF users[u].role = "support"
    THEN {e \in 1..Len(events) : events[e].support_contact_id = u}
    ELSE {e \in 1..Len(events) :
            clients[contracts[events[e].contract_id].client_id].sales_contact_id = u}

list_events(u) ==
    IF ~require_role({"sales", "support", "gestion"}, u)
    THEN Raise("list_events", u, 0, "PermissionError")
    ELSE /\ Return("list_events", u, 0, list_events_rows(u))
         /\ UNCHANGED db

assign_support_any_role(u, event_id, support_user_id) ==
    IF ~require_role({"gestion"}, u)
    THEN Raise("assign_support", u, event_id, "PermissionError")
    ELSE IF ~get_event(event_id)
    THEN Raise("assign_support", u, event_id, "NotFoundError")
    ELSE IF ~get_user_by_id(support_user_id)
    THEN Raise("assign_support", u, event_id, "NotFoundError")
    ELSE /\ events' = [events EXCEPT ![event_id].support_contact_id = support_user_id]
         /\ Return("assign_support", u, event_id, {event_id})
         /\ UNCHANGED <<users, nextUserId, clients, contracts>>

assign_support(u, event_id, support_user_id) ==
    IF ~require_role({"gestion"}, u)
    THEN Raise("assign_support", u, event_id, "PermissionError")
    ELSE IF ~get_event(event_id)
    THEN Raise("assign_support", u, event_id, "NotFoundError")
    ELSE IF ~get_user_by_id(support_user_id)
    THEN Raise("assign_support", u, event_id, "NotFoundError")
    ELSE IF users[support_user_id].role # "support"
    THEN Raise("assign_support", u, event_id, "ValidationError")
    ELSE /\ events' = [events EXCEPT ![event_id].support_contact_id = support_user_id]
         /\ Return("assign_support", u, event_id, {event_id})
         /\ UNCHANGED <<users, nextUserId, clients, contracts>>

----------------------------------------------------------------------------
(* Session: app/auth.py, and the menu actions of app/cli_app.py that use it *)

\* timedelta(hours=24), one unit of the clock
TokenLife == 1
MaxClock == 2

\* the names bound in module app.auth when its functions run: the imports
\* (os, datetime, timedelta, UTC, PasswordHasher, jwt), SECRET_KEY, ph and
\* the functions of the module; app.models.User is not imported
auth_globals ==
    {"os", "datetime", "timedelta", "UTC", "PasswordHasher", "jwt", "SECRET_KEY", "ph",
     "create_token", "decode_token", "save_token", "load_token_locally", "hash_password",
     "verify_password", "login", "get_current_user", "require_role"}

\* contents of .epicevents_token: no file, text that is no token of this
\* SECRET_KEY (malformed, or signed with another key), or a token of it
NoFile == [kind |-> "none", user_id |-> 0, role |-> "", exp |-> 0]
Malformed == [kind |-> "malformed", user_id |-> 0, role |-> "", exp |-> 0]
Forged(user_id, role, exp) == [kind |-> "forged", user_id |-> user_id, role |-> role, exp |-> exp]
Jwt(user_id, role, exp) == [kind |-> "jwt", user_id |-> user_id, role |-> role, exp |-> exp]
TokenFiles ==
    {Malformed}
    \cup {Forged(i, "gestion", MaxClock + TokenLife) : i \in 1..MaxUsers}
    \cup {Jwt(i, r, e) : i \in 1..MaxUsers, r \in Roles, e \in 1..(MaxClock + TokenLife)}

\* jwt.encode({"user_id", "role", "exp": now + 24 h}, SECRET_KEY)
create_token(user_id, role) == Jwt(user_id, role, now + TokenLife)

\* jwt.decode(token, SECRET_KEY): the signature is verified first, then exp
decode_token(token) ==
    IF token.kind # "jwt"
    THEN [exc |-> "InvalidTokenError", user_id |-> 0, role |-> ""]
    ELSE IF token.exp <= now
    THEN [exc |-> "ExpiredSignatureError", user_id |-> 0, role |-> ""]
    ELSE [exc |-> "", user_id |-> token.user_id, role |-> token.role]

save_token(token) == token_file' = token

\* None when open() raises FileNotFoundError
load_token_locally == token_file

\* a call of app.auth that raised
AuthRaise(op, exc) ==
    /\ last = AtMenu
    /\ last' = [op |-> op, actor |-> 0, target |-> 0, outcome |-> exc, msg |-> "",
                ret |-> {}, sink |-> "none", onupdate |-> {}]

\* a call of app.auth that returned the user rows, with the value v shown
AuthReturn(op, rows, v) ==
    /\ last = AtMenu
    /\ last' = [op |-> op, actor |-> 0, target |-> 0, outcome |-> "OK", msg |-> v,
                ret |-> rows, sink |-> "none", onupdate |-> {}]

\* login(db, email, password): found is the row of users with this email
\* (NULL: none), verifies is verify_password(user.password_hash, password).
\* Line 107 evaluates the name User, which module app.auth does not bind.
login(found, verifies) ==
    IF "User" \notin auth_globals
    THEN /\ AuthRaise("login", "NameError")
         /\ UNCHANGED token_file
    ELSE IF found = NULL
    THEN /\ AuthReturn("login", {}, "False")
         /\ UNCHANGED token_file
    ELSE IF ~verifies
    THEN /\ AuthReturn("login", {}, "False")
         /\ UNCHANGED token_file
    ELSE /\ save_token(create_token(found, users[found].role))
         /\ AuthReturn("login", {}, "True")

\* get_current_user(db): what it raises, or the user it returns (NULL: None).
\* Line 145 evaluates the name User, which module app.auth does not bind.
get_current_user ==
    LET token == load_token_locally
        payload == decode_token(token)
    IN  IF token = NoFile
        THEN [exc |-> "", user |-> NULL]
        ELSE IF payload.exc = "ExpiredSignatureError"
        THEN [exc |-> "", user |-> NULL]
        ELSE IF payload.exc = "InvalidTokenError"
        THEN [exc |-> "", user |-> NULL]
        ELSE IF "User" \notin auth_globals
        THEN [exc |-> "NameError", user |-> NULL]
        ELSE [exc |-> "", user |-> IF payload.user_id \in ExistingUsers
                                   THEN payload.user_id ELSE NULL]

\* action_login: email and password are prompted, then login is called
action_login ==
    /\ last = AtMenu
    /\ \E found \in ExistingUsers \cup {NULL}, verifies \in BOOLEAN : login(found, verifies)
    /\ UNCHANGED db
    /\ UNCHANGED <<now, sessions>>

\* action_whoami: get_logged_user() is get_current_user(db) with nothing caught
action_whoami ==
    /\ IF get_current_user.exc # ""
       THEN AuthRaise("get_current_user", get_current_user.exc)
       ELSE AuthReturn("get_current_user", {get_current_user.user} \ {NULL}, "")
    /\ UNCHANGED db
    /\ UNCHANGED aux

\* action_logout: os.remove(".epicevents_token") when the file exists
action_logout ==
    /\ last = AtMenu
    /\ token_file' = NoFile
    /\ last' = [AtMenu EXCEPT !.op = "logout"]
    /\ UNCHANGED db
    /\ UNCHANGED <<now, sessions>>

\* action_list_users: user = get_current_user(db); users = list_users(db, user);
\* only PermissionError is caught (and shown); with user None the guard
\* evaluates None.role
action_list_users ==
    /\ IF get_current_user.exc # ""
       THEN AuthRaise("action_list_users", get_current_user.exc)
       ELSE IF get_current_user.user = NULL
       THEN AuthRaise("action_list_users", "AttributeError")
       ELSE IF ~require_role({"gestion"}, get_current_user.user)
       THEN AuthRaise("action_list_users", "PermissionError")
       ELSE AuthReturn("action_list_users", ExistingUsers, "")
    /\ UNCHANGED db
    /\ UNCHANGED aux

\* the file .epicevents_token written by save_token outside login (as the
\* tests do with save_token(create_token(...))), or by hand
token_file_written ==
    /\ last = AtMenu
    /\ \E content \in TokenFiles : save_token(content)
    /\ UNCHANGED <<db, last, now, sessions>>

\* 24 hours pass
tick ==
    /\ last = AtMenu
    /\ now < MaxClock
    /\ now' = now + 1
    /\ UNCHANGED <<db, last, token_file, sessions>>

----------------------------------------------------------------------------
(* update_contract called by two other processes at once: each has its own  *)
(* SessionLocal; the row is read and validated (lines 82-115), the commit   *)
(* (line 117) writes the columns this session changed                      *)

Processes == {1, 2}
\* keywords of one overlapping call
OverlapKeys == 1

Clean == [status |-> {}, total_amount |-> {}, remaining_amount |-> {}, client_id |-> {}]
Idle == [contract_id |-> 0, dirty |-> Clean]

\* the attributes the setattr loop changed on the loaded row: the columns of
\* the UPDATE that the commit emits
Dirty(k, kw) ==
    [status |-> IF Has(kw.status) /\ Val(kw.status) # k.status THEN kw.status ELSE {},
     total_amount |-> IF Has(kw.total_amount) /\ Val(kw.total_amount) # k.total_amount
                      THEN kw.total_amount ELSE {},
     remaining_amount |-> IF Has(kw.remaining_amount)
                             /\ Val(kw.remaining_amount) # k.remaining_amount
                          THEN kw.remaining_amount ELSE {},
     client_id |-> IF Has(kw.client_id) /\ Val(kw.client_id) # k.client_id
                   THEN kw.client_id ELSE {}]

\* lines 82-115 in process s, every check passed against the row as stored
update_contract_read(s, u, contract_id, kw) ==
    /\ sessions[s] = Idle
    /\ require_role({"sales", "gestion"}, u)
    /\ get_contract(contract_id)
    /\ ~(/\ users[u].role = "sales"
         /\ clients[contracts[contract_id].client_id].sales_contact_id # u)
    /\ ~(Has(kw.status) /\ Val(kw.status) \notin {"pending", "signed"})
    /\ ~(Has(kw.total_amount) /\ Val(kw.total_amount) <= 0)
    /\ ~(Has(kw.remaining_amount) /\ Val(kw.remaining_amount) < 0)
    /\ ~(new_remaining(contracts[contract_id], kw) > new_total(contracts[contract_id], kw))
    /\ sessions' = [sessions EXCEPT ![s] = [contract_id |-> contract_id,
                                            dirty |-> Dirty(contracts[contract_id], kw)]]
    /\ UNCHANGED <<db, last, token_file, now>>

\* line 117 in process s: UPDATE contracts SET <dirty columns> WHERE id = ...
update_contract_commit(s) ==
    /\ sessions[s] # Idle
    /\ contracts' = [contracts EXCEPT ![sessions[s].contract_id] =
                                          PatchContract(@, sessions[s].dirty)]
    /\ sessions' = [sessions EXCEPT ![s] = Idle]
    /\ UNCHANGED <<users, nextUserId, clients, events, last, token_file, now>>

----------------------------------------------------------------------------

Init ==
    /\ \E r \in Roles, su \in BOOLEAN :
           users = (1 :> [role |-> r, is_superuser |-> su])
    /\ nextUserId = 2
    /\ clients = <<>>
    /\ contracts = <<>>
    /\ events = <<>>
    /\ last = AtMenu
    /\ token_file = NoFile
    /\ now = 0
    /\ sessions = [s \in Processes |-> Idle]

\* one manager call, made from a menu of app/cli_app.py, or the prompt after it
Next ==
    \/ /\ last = AtMenu
       /\ UNCHANGED aux
       /\ \E u \in ExistingUsers, p \in Phones, e \in Emails : create_client(u, p, e)
    \/ /\ last = AtMenu
       /\ UNCHANGED aux
       /\ \E u \in ExistingUsers : list_clients(u)
    \/ /\ last = AtMenu
       /\ UNCHANGED aux
       /\ \E u \in ExistingUsers, c \in AnyClientId, kw \in UpTo(MaxKeys, ClientKwargs) : update_client(u, c, kw)
    \/ /\ last = AtMenu
       /\ UNCHANGED aux
       /\ \E u \in ExistingUsers, e \in UserEmails, p \in Passwords, d \in Departments, r \in Roles :
              create_user(u, e, p, d, r, TRUE)
    \/ /\ last = AtMenu
       /\ UNCHANGED aux
       /\ \E u \in ExistingUsers : list_users(u)
    \/ /\ last = AtMenu
       /\ UNCHANGED aux
       /\ \E u \in ExistingUsers, t \in AnyUserId, kw \in UpTo(MaxKeys, UserKwargs) : update_user(u, t, kw, TRUE)
    \/ /\ last = AtMenu
       /\ UNCHANGED aux
       /\ \E u \in ExistingUsers, t \in AnyUserId : delete_user(u, t)
    \/ /\ last = AtMenu
       /\ UNCHANGED aux
       /\ \E u \in ExistingUsers, s \in Statuses, t \in 0..MaxAmount, r \in Amounts, c \in AnyClientId :
              create_contract(u, s, t, r, c)
    \/ /\ last = AtMenu
       /\ UNCHANGED aux
       /\ \E u \in ExistingUsers, k \in AnyContractId, kw \in UpTo(MaxKeys, ContractKwargs) : update_contract(u, k, kw, TRUE)
    \/ /\ last = AtMenu
       /\ UNCHANGED aux
       /\ \E u \in ExistingUsers : list_contracts(u)
    \/ /\ last = AtMenu
       /\ UNCHANGED aux
       /\ \E u \in ExistingUsers, k \in AnyContractId : create_event(u, k)
    \/ /\ last = AtMenu
       /\ UNCHANGED aux
       /\ \E u \in ExistingUsers, e \in AnyEventId, kw \in UpTo(MaxKeys, EventKwargs) : update_event(u, e, kw)
    \/ /\ last = AtMenu
       /\ UNCHANGED aux
       /\ \E u \in ExistingUsers : list_events(u)
    \/ /\ last = AtMenu
       /\ UNCHANGED aux
       /\ \E u \in ExistingUsers, e \in AnyEventId, t \in AnyUserId : assign_support(u, e, t)
    \/ continue_prompt

Spec == Init /\ [][Next]_vars

\* the same calls with a notification sink that raises
create_user_sink_down ==
    /\ last = AtMenu
    /\ UNCHANGED aux
    /\ \E u \in ExistingUsers, e \in UserEmails, p \in Passwords, d \in Departments, r \in Roles :
           create_user(u, e, p, d, r, FALSE)

update_user_sink_down ==
    /\ last = AtMenu
    /\ UNCHANGED aux
    /\ \E u \in ExistingUsers, t \in AnyUserId, kw \in UpTo(MaxKeys, UserKwargs) :
           update_user(u, t, kw, FALSE)

update_contract_sink_down ==
    /\ last = AtMenu
    /\ UNCHANGED aux
    /\ \E u \in ExistingUsers, k \in AnyContractId, kw \in UpTo(MaxKeys, ContractKwargs) :
           update_contract(u, k, kw, FALSE)

NextSinkDown ==
    \/ Next
    \/ create_user_sink_down
    \/ update_user_sink_down
    \/ update_contract_sink_down

SpecSinkDown == Init /\ [][NextSinkDown]_vars

\* sessions: the menu Authentification, the menu Collaborateurs, the token
\* file and the clock
NextAuth ==
    \/ action_login
    \/ action_whoami
    \/ action_logout
    \/ action_list_users
    \/ token_file_written
    \/ tick
    \/ /\ last = AtMenu
       /\ UNCHANGED aux
       /\ \E u \in ExistingUsers, e \in UserEmails, p \in Passwords, d \in Departments, r \in Roles :
              create_user(u, e, p, d, r, TRUE)
    \/ /\ last = AtMenu
       /\ UNCHANGED aux
       /\ \E u \in ExistingUsers, t \in AnyUserId, kw \in UpTo(MaxKeys, UserKwargs) : update_user(u, t, kw, TRUE)
    \/ /\ last = AtMenu
       /\ UNCHANGED aux
       /\ \E u \in ExistingUsers, t \in AnyUserId : delete_user(u, t)
    \/ continue_prompt

SpecAuth == Init /\ [][NextAuth]_vars

\* contracts updated by two processes at once, beside the menu
NextConcurrent ==
    \/ /\ last = AtMenu
       /\ UNCHANGED aux
       /\ \E u \in ExistingUsers, p \in Phones, e \in Emails : create_client(u, p, e)
    \/ /\ last = AtMenu
       /\ UNCHANGED aux
       /\ \E u \in ExistingUsers, s \in Statuses, t \in 0..MaxAmount, r \in Amounts, c \in AnyClientId :
              create_contract(u, s, t, r, c)
    \/ \E s \in Processes, u \in ExistingUsers, k \in AnyContractId,
          kw \in UpTo(OverlapKeys, ContractKwargs) : update_contract_read(s, u, k, kw)
    \/ \E s \in Processes : update_contract_commit(s)
    \/ continue_prompt

SpecConcurrent == Init /\ [][NextConcurrent]_vars

----------------------------------------------------------------------------
(* Properties *)

\* the allow-list declared at each decorated manager
Guarded ==
    [create_client   |-> {"sales", "gestion"},
     update_client   |-> {"sales", "gestion"},
     create_contract |-> {"gestion"},
     update_contract |-> {"sales", "gestion"},
     list_contracts  |-> {"gestion", "support", "sales"},
     create_event    |-> {"sales"},
     update_event    |-> {"support", "gestion"},
     list_events     |-> {"sales", "support", "gestion"},
     assign_support  |-> {"gestion"},
     create_user     |-> {"gestion"},
     list_users      |-> {"gestion"},
     update_user     |-> {"gestion"},
     delete_user     |-> {"gestion"}]

\* the step is a manager call (it leaves the menu)
IsCall == last = AtMenu /\ last' # AtMenu

\* C1: a call of a guarded manager by a user who is no superuser and whose role
\* is not in the manager's allow-list raises PermissionError, and the users,
\* clients, contracts and events are exactly as before the call.
C1_GuardDeniesWithoutEffect ==
    [][(/\ IsCall
        /\ last'.op \in DOMAIN Guarded
        /\ ~users[last'.actor].is_superuser
        /\ users[last'.actor].role \notin Guarded[last'.op])
       => (last'.outcome = "PermissionError" /\ db' = db)]_vars

C1_Witness ==
    /\ last.op \in {"create_contract", "update_user", "delete_user", "assign_support"}
    /\ last.outcome = "PermissionError"
    /\ last.actor \in ExistingUsers
    /\ ~users[last.actor].is_superuser
    /\ users[last.actor].role \notin Guarded[last.op]
    /\ Len(clients) > 0

\* C2: a call made by a superuser never raises PermissionError, whatever the
\* superuser's role and whoever owns the row.
C2_SuperuserNeverDenied ==
    (last # AtMenu /\ last.outcome = "PermissionError")
        => ~users[last.actor].is_superuser

C4_EventsOnlyOnSignedContracts ==
    [][/\ Len(events') >= Len(events)
       /\ Len(events') > Len(events) =>
            /\ IsCall /\ last'.op = "create_event" /\ last'.outcome = "OK"
            /\ Len(events') = Len(events) + 1
            /\ events'[Len(events')].contract_id \in 1..Len(contracts)
            /\ contracts[events'[Len(events')].contract_id].status = "signed"
       /\ (/\ IsCall /\ last'.op = "create_event"
           /\ (users[last'.actor].is_superuser \/ users[last'.actor].role = "sales")
           /\ last'.target \in 1..Len(contracts)
           /\ contracts[last'.target].status # "signed")
          => (last'.outcome = "ValidationError" /\ events' = events)]_vars

C4_Witness ==
    /\ last.op = "create_event"
    /\ last.outcome = "OK"
    /\ Len(events) >= 1
    /\ last.ret = {Len(events)}

\* the field set status="signed"
SignOnly ==
    [status |-> {"signed"}, total_amount |-> {}, remaining_amount |-> {},
     client_id |-> {}, bogus |-> {}]

\* C5: for a contract K of a client owned by sales user S: while K is "pending",
\* create_event by S on K raises ValidationError; update_contract(K,
\* status="signed") by a gestion user succeeds and leaves K "signed"; and once K
\* is "signed", create_event by S on K succeeds with an event whose contract_id
\* is K.
C5_LifecycleGate ==
    [][/\ (/\ IsCall /\ last'.op = "create_event"
           /\ users[last'.actor].role = "sales"
           /\ last'.target \in 1..Len(contracts)
           /\ clients[contracts[last'.target].client_id].sales_contact_id = last'.actor)
          => /\ contracts[last'.target].status = "pending"
                  => (last'.outcome = "ValidationError" /\ events' = events)
             /\ contracts[last'.target].status = "signed"
                  => /\ last'.outcome = "OK"
                     /\ Len(events') = Len(events) + 1
                     /\ events'[Len(events')].contract_id = last'.target
       /\ \A g \in ExistingUsers, k \in 1..Len(contracts) :
            (update_contract(g, k, SignOnly, TRUE) /\ users[g].role = "gestion")
                => (last'.outcome = "OK" /\ contracts'[k].status = "signed")]_vars

C5_Witness ==
    /\ last.op = "create_event"
    /\ last.outcome = "OK"
    /\ users[last.actor].role = "sales"
    /\ ~users[last.actor].is_superuser
    /\ events[Len(events)].contract_id = last.target
    /\ contracts[last.target].status = "signed"
    /\ clients[contracts[last.target].client_id].sales_contact_id = last.actor

C7_CreateClientSelfAssigns ==
    [][/\ Len(clients') # Len(clients) =>
            (IsCall /\ last'.op = "create_client" /\ last'.outcome = "OK")
       /\ (IsCall /\ last'.op = "create_client" /\ last'.outcome = "OK") =>
            /\ Len(clients') = Len(clients) + 1
            /\ \A c \in 1..Len(clients) : clients'[c] = clients[c]
            /\ clients'[Len(clients')].sales_contact_id = last'.actor]_vars

C7_Witness ==
    /\ last.op = "create_client"
    /\ last.outcome = "OK"
    /\ users[last.actor].role = "gestion"
    /\ Cardinality(ExistingUsers) > 1
    /\ \A c \in last.ret : clients[c].sales_contact_id = last.actor

\* C8: no step changes the sales_contact_id of a stored client.
C8_SalesContactNeverChanges ==
    [][\A c \in 1..Len(clients) :
          /\ c <= Len(clients')
          /\ clients'[c].sales_contact_id = clients[c].sales_contact_id]_vars

OwnClients(u) == {c \in 1..Len(clients) : clients[c].sales_contact_id = u}
OwnContracts(u) == {k \in 1..Len(contracts) : contracts[k].client_id \in OwnClients(u)}
OwnEvents(u) == {e \in 1..Len(events) : events[e].contract_id \in OwnContracts(u)}

\* C10: for every user of role sales, list_clients, list_contracts and
\* list_events return exactly the clients whose sales contact the user is, the
\* contracts of those clients and the events of those contracts.
C10_SalesListsAreOwnRows ==
    /\ \A u \in ExistingUsers :
          users[u].role = "sales" =>
              /\ list_clients_rows(u) = OwnClients(u)
              /\ list_contracts_rows(u) = OwnContracts(u)
              /\ list_events_rows(u) = OwnEvents(u)
    /\ (last.outcome = "OK" /\ last.actor \in ExistingUsers /\ users[last.actor].role = "sales") =>
          /\ last.op = "list_clients" => last.ret = OwnClients(last.actor)
          /\ last.op = "list_contracts" => last.ret = OwnContracts(last.actor)
          /\ last.op = "list_events" => last.ret = OwnEvents(last.actor)

C10_Witness ==
    /\ last.op = "list_contracts"
    /\ last.outcome = "OK"
    /\ users[last.actor].role = "sales"
    /\ Len(contracts) > 0
    /\ last.ret = {}
    /\ \E v \in ExistingUsers : users[v].role = "sales" /\ OwnContracts(v) # {}

C13_SupportAndGestionLists ==
    (last.outcome = "OK" /\ last.op \in {"list_events", "list_contracts"}) =>
        /\ (last.op = "list_events" /\ users[last.actor].role = "support")
              => last.ret = {e \in 1..Len(events) : events[e].support_contact_id = last.actor}
        /\ (last.op = "list_contracts" /\ users[last.actor].role = "support")
              => last.ret = 1..Len(contracts)
        /\ (last.op = "list_events" /\ users[last.actor].role = "gestion")
              => last.ret = 1..Len(events)
        /\ (last.op = "list_contracts" /\ users[last.actor].role = "gestion")
              => last.ret = 1..Len(contracts)

C13_Witness ==
    /\ last.op = "list_events"
    /\ last.outcome = "OK"
    /\ users[last.actor].role = "support"
    /\ Len(events) > 0
    /\ events[1].support_contact_id # last.actor
    /\ last.ret = {}

\* C14: every stored contract has status "pending" or "signed".
C14_StatusDomain ==
    \A k \in 1..Len(contracts) : contracts[k].status \in {"pending", "signed"}

\* C15: once a contract's status is "signed", no step brings it to another
\* status.
C15_SignedIsTerminal ==
    [][\A k \in 1..Len(contracts) :
          contracts[k].status = "signed"
              => (k <= Len(contracts') /\ contracts'[k].status = "signed")]_vars

\* C16 (as stated): every contract has status "pending" right after
\* create_contract, and a contract becomes "signed" only in an update_contract
\* call.
C16_CreatedPendingSignedByUpdate ==
    [][/\ (IsCall /\ last'.op = "create_contract" /\ last'.outcome = "OK")
            => contracts'[Len(contracts')].status = "pending"
       /\ \A k \in 1..Len(contracts') :
            (/\ contracts'[k].status = "signed"
             /\ (k > Len(contracts) \/ contracts[k].status # "signed"))
                => (IsCall /\ last'.op = "update_contract")]_vars

\* C16 (amended): right after create_contract the new contract has the status
\* the caller passed ("signed" included), and the status of a stored contract
\* changes only in an update_contract call on that contract.
C16_StatusAsPassedThenUpdateOnly ==
    [][/\ (IsCall /\ last'.op = "create_contract" /\ last'.outcome = "OK")
            => \A s \in Statuses, t \in 0..MaxAmount, r \in Amounts :
                   create_contract(last'.actor, s, t, r, last'.target)
                       => /\ Len(contracts') = Len(contracts) + 1
                          /\ contracts'[Len(contracts')].status = s
       /\ \A k \in 1..Len(contracts) :
            /\ k <= Len(contracts')
            /\ contracts'[k].status # contracts[k].status
                  => (IsCall /\ last'.op = "update_contract" /\ last'.target = k)]_vars

C16_Witness ==
    /\ last.op = "create_contract"
    /\ last.outcome = "OK"
    /\ last.ret = {Len(contracts)}
    /\ contracts[Len(contracts)].status = "signed"

\* C17: an update_contract call sends the "Contrat signe" notification, once, if
\* and only if the call succeeds, the contract's status before the call was not
\* "signed" and its status after the call is "signed"; an update of a contract
\* that is signed already, an update that leaves the contract pending and a
\* call that raises send none.
C17_NotifiesOnSigningOnly ==
    [][(IsCall /\ last'.op = "update_contract")
        => /\ last'.sink \in {"none", "sent"}
           /\ last'.sink = "sent"
                <=> /\ last'.outcome = "OK"
                    /\ last'.target \in 1..Len(contracts)
                    /\ contracts[last'.target].status # "signed"
                    /\ contracts'[last'.target].status = "signed"]_vars

C17_Witness ==
    /\ last.op = "update_contract"
    /\ last.outcome = "OK"
    /\ last.sink = "sent"
    /\ contracts[last.target].status = "signed"

\* C18: when the notification sink fails in an update_contract call, the call
\* still returns the updated contract (no exception reaches the caller) and the
\* new values of the contract are committed.
C18_SinkFailureAbsorbed ==
    [][(IsCall /\ last'.op = "update_contract" /\ last'.sink = "failed")
        => /\ last'.outcome = "OK"
           /\ last'.ret = {last'.target}
           /\ contracts'[last'.target].status = "signed"]_vars

\* C19: create_contract by a caller the role guard lets through raises
\* NotFoundError when the client id is unknown, and ValidationError when
\* total_amount <= 0, remaining_amount < 0 or remaining_amount > total_amount;
\* every failing call leaves the contracts as they were, and a call that fails
\* none of these checks stores one contract.
C19_CreateContractFailures ==
    [][(/\ IsCall /\ last'.op = "create_contract"
        /\ (users[last'.actor].is_superuser \/ users[last'.actor].role = "gestion"))
        => \A s \in Statuses, t \in 0..MaxAmount, r \in Amounts :
               create_contract(last'.actor, s, t, r, last'.target)
                   => IF last'.target \notin 1..Len(clients)
                      THEN last'.outcome = "NotFoundError" /\ contracts' = contracts
                      ELSE IF t <= 0 \/ r < 0 \/ r > t
                      THEN last'.outcome = "ValidationError" /\ contracts' = contracts
                      ELSE /\ last'.outcome = "OK"
                           /\ Len(contracts') = Len(contracts) + 1]_vars

C19_Witness ==
    /\ last.op = "create_contract"
    /\ last.outcome = "ValidationError"
    /\ last.msg = "Le montant restant ne peut depasser le montant total"
    /\ users[last.actor].role = "gestion"
    /\ last.target \in 1..Len(clients)
    /\ contracts = <<>>

\* C20: update_contract, for a caller the role guard and the ownership check let
\* through, on a stored contract: when the call gives only one of total_amount
\* and remaining_amount and the merged pair (the value given, else the stored
\* one) has remaining_amount > total_amount, or when the status given is
\* neither "pending" nor "signed", the call raises ValidationError and no field
\* of any contract is changed, the other fields given in the call included.
C20_ValidatesMergedBeforeWrite ==
    last = AtMenu =>
        \A u \in ExistingUsers, k \in 1..Len(contracts), kw \in UpTo(MaxKeys, ContractKwargs) :
            (/\ (users[u].is_superuser \/ users[u].role \in {"sales", "gestion"})
             /\ (users[u].role = "sales" => clients[contracts[k].client_id].sales_contact_id = u)
             /\ \/ Has(kw.status) /\ Val(kw.status) \notin {"pending", "signed"}
                \/ /\ Has(kw.total_amount) /\ ~Has(kw.remaining_amount)
                   /\ contracts[k].remaining_amount > Val(kw.total_amount)
                \/ /\ Has(kw.remaining_amount) /\ ~Has(kw.total_amount)
                   /\ Val(kw.remaining_amount) > contracts[k].total_amount)
                => ~ENABLED (/\ update_contract(u, k, kw, TRUE)
                             /\ ~(last'.outcome = "ValidationError" /\ contracts' = contracts))

C20_Witness ==
    /\ last.op = "update_contract"
    /\ last.outcome = "ValidationError"
    /\ last.msg = "Le montant restant ne peut depasser le montant total"
    /\ last.target \in 1..Len(contracts)
    /\ contracts[last.target].total_amount = MaxAmount
    /\ contracts[last.target].remaining_amount = MaxAmount

\* C21 (as stated): update_event raises PermissionError for every user of role
\* sales, and for a user of role support whenever the event's
\* support_contact_id is not that user's id (events without a support contact
\* included); a user of role gestion is never refused; a refused call leaves
\* the event as it was.
C21_UpdateEventRefusals ==
    [][(IsCall /\ last'.op = "update_event")
        => /\ users[last'.actor].role = "sales"
                => (last'.outcome = "PermissionError" /\ events' = events)
           /\ (/\ users[last'.actor].role = "support"
               /\ last'.target \in 1..Len(events)
               /\ events[last'.target].support_contact_id # last'.actor)
                => (last'.outcome = "PermissionError" /\ events' = events)
           /\ users[last'.actor].role = "gestion" => last'.outcome # "PermissionError"
           /\ last'.outcome = "PermissionError" => events' = events]_vars

\* C21 (amended): as C21, with "every user of role sales" read as every user of
\* role sales who is no superuser; a superuser of role sales passes the guard
\* and, as no ownership check applies to role sales, updates the event.
C21_UpdateEventRefusalsButSuperuser ==
    [][(IsCall /\ last'.op = "update_event")
        => /\ (users[last'.actor].role = "sales" /\ ~users[last'.actor].is_superuser)
                => (last'.outcome = "PermissionError" /\ events' = events)
           /\ (/\ users[last'.actor].role = "support"
               /\ last'.target \in 1..Len(events)
               /\ events[last'.target].support_contact_id # last'.actor)
                => (last'.outcome = "PermissionError" /\ events' = events)
           /\ users[last'.actor].role = "gestion" => last'.outcome # "PermissionError"
           /\ last'.outcome = "PermissionError" => events' = events]_vars

C21_Witness ==
    /\ last.op = "update_event"
    /\ last.outcome = "PermissionError"
    /\ users[last.actor].role = "support"
    /\ last.target \in 1..Len(events)
    /\ events[last.target].support_contact_id = NULL

\* C22 (as stated): assign_support is refused to every caller whose role is not
\* gestion; for a gestion caller it raises NotFoundError when the event or the
\* target user is absent, ValidationError when the target user's role is not
\* support, and otherwise sets the event's support_contact_id to the target
\* user's id and changes nothing else.
C22_AssignSupportGestionOnly ==
    [][(IsCall /\ last'.op = "assign_support")
        => \A t \in AnyUserId :
               assign_support(last'.actor, last'.target, t)
                   => IF users[last'.actor].role # "gestion"
                      THEN last'.outcome = "PermissionError" /\ db' = db
                      ELSE IF last'.target \notin 1..Len(events) \/ t \notin ExistingUsers
                      THEN last'.outcome = "NotFoundError" /\ db' = db
                      ELSE IF users[t].role # "support"
                      THEN last'.outcome = "ValidationError" /\ db' = db
                      ELSE /\ last'.outcome = "OK"
                           /\ events' = [events EXCEPT
                                            ![last'.target].support_contact_id = t]
                           /\ UNCHANGED <<users, nextUserId, clients, contracts>>]_vars

\* C22 (amended): as C22, with the callers let through being those of role
\* gestion and the superusers.
C22_AssignSupportGuarded ==
    [][(IsCall /\ last'.op = "assign_support")
        => \A t \in AnyUserId :
               assign_support(last'.actor, last'.target, t)
                   => IF /\ users[last'.actor].role # "gestion"
                         /\ ~users[last'.actor].is_superuser
                      THEN last'.outcome = "PermissionError" /\ db' = db
                      ELSE IF last'.target \notin 1..Len(events) \/ t \notin ExistingUsers
                      THEN last'.outcome = "NotFoundError" /\ db' = db
                      ELSE IF users[t].role # "support"
                      THEN last'.outcome = "ValidationError" /\ db' = db
                      ELSE /\ last'.outcome = "OK"
                           /\ events' = [events EXCEPT
                                            ![last'.target].support_contact_id = t]
                           /\ UNCHANGED <<users, nextUserId, clients, contracts>>]_vars

C22_Witness ==
    /\ last.op = "assign_support"
    /\ last.outcome = "OK"
    /\ users[last.actor].role = "gestion"
    /\ events[last.target].support_contact_id \in ExistingUsers
    /\ users[events[last.target].support_contact_id].role = "support"

\* C23: the support_contact_id of every stored event is NULL or the id of an
\* existing user whose role is support.
C23_SupportContactIsSupport ==
    \A e \in 1..Len(events) :
        \/ events[e].support_contact_id = NULL
        \/ /\ events[e].support_contact_id \in ExistingUsers
           /\ users[events[e].support_contact_id].role = "support"

\* C24: create_user, list_users, update_user and delete_user called by a user of
\* role sales or support who is no superuser raise PermissionError and leave
\* the set of users and every field of every user as they were.
C24_UsersManagedByGestionOnly ==
    [][(/\ IsCall
        /\ last'.op \in {"create_user", "list_users", "update_user", "delete_user"}
        /\ users[last'.actor].role \in {"sales", "support"}
        /\ ~users[last'.actor].is_superuser)
        => (last'.outcome = "PermissionError" /\ users' = users /\ nextUserId' = nextUserId)]_vars

C24_Witness ==
    /\ last.op = "delete_user"
    /\ last.outcome = "PermissionError"
    /\ last.actor \in ExistingUsers
    /\ users[last.actor].role = "support"
    /\ ~users[last.actor].is_superuser
    /\ last.target \in ExistingUsers
    /\ last.target # last.actor

\* C30: no call made by a user who is no superuser changes the is_superuser
\* flag of a user from FALSE to TRUE.
C30_NoEscalationToSuperuser ==
    [][(IsCall /\ ~users[last'.actor].is_superuser)
        => \A x \in ExistingUsers :
               (~users[x].is_superuser /\ x \in DOMAIN users') => ~users'[x].is_superuser]_vars

\* the value a row's field has after a patch that names it or not
Named(o, old) == IF Has(o) THEN Val(o) ELSE old

\* update_client(_, t, kw) has left the fields kw names with the values given
\* and every other carried field and row as before (a name that is no
\* attribute of the entity changes nothing); likewise for the other entities
ClientAsNamed(t, kw) ==
    /\ clients' = [clients EXCEPT ![t] =
          [email |-> Named(kw.email, @.email),
           phone_number |-> Named(kw.phone_number, @.phone_number),
           sales_contact_id |-> Named(kw.sales_contact_id, @.sales_contact_id)]]
    /\ UNCHANGED <<users, nextUserId, contracts, events>>

ContractAsNamed(t, kw) ==
    /\ contracts' = [contracts EXCEPT ![t] =
          [status |-> Named(kw.status, @.status),
           total_amount |-> Named(kw.total_amount, @.total_amount),
           remaining_amount |-> Named(kw.remaining_amount, @.remaining_amount),
           client_id |-> Named(kw.client_id, @.client_id)]]
    /\ UNCHANGED <<users, nextUserId, clients, events>>

EventAsNamed(t, kw) ==
    /\ events' = [events EXCEPT ![t] =
          [contract_id |-> Named(kw.contract_id, @.contract_id),
           support_contact_id |-> Named(kw.support_contact_id, @.support_contact_id)]]
    /\ UNCHANGED <<users, nextUserId, clients, contracts>>

UserAsNamed(t, kw) ==
    /\ users' = [users EXCEPT ![t] =
          [role |-> Named(kw.role_id, @.role),
           is_superuser |-> Named(kw.is_superuser, @.is_superuser)]]
    /\ UNCHANGED <<nextUserId, clients, contracts, events>>

\* no successful update_contract, update_event or update_user, whoever makes
\* it and whatever its field set, does anything but patch the fields named
OtherPatchesAsNamed ==
    \A u \in ExistingUsers :
        /\ \A t \in 1..Len(contracts), kw \in UpTo(MaxKeys, ContractKwargs) :
              ~ENABLED (/\ update_contract(u, t, kw, TRUE)
                        /\ last'.outcome = "OK"
                        /\ ~(ContractAsNamed(t, kw) /\ last'.onupdate = {}))
        /\ \A t \in 1..Len(events), kw \in UpTo(MaxKeys, EventKwargs) :
              ~ENABLED (/\ update_event(u, t, kw)
                        /\ last'.outcome = "OK"
                        /\ ~(EventAsNamed(t, kw) /\ last'.onupdate = {}))
        /\ \A t \in ExistingUsers, kw \in UpTo(MaxKeys, UserKwargs) :
              ~ENABLED (/\ update_user(u, t, kw, TRUE)
                        /\ last'.outcome = "OK"
                        /\ ~(UserAsNamed(t, kw) /\ last'.onupdate = {}))

\* C27 (as stated): after a successful update_client, update_contract,
\* update_event or update_user only the fields named in the field set have
\* changed, to the values given; every other field of the row and every other
\* row is as before; a name that is no attribute of the entity is ignored.
C27_PartialPatch ==
    last = AtMenu =>
        /\ OtherPatchesAsNamed
        /\ \A u \in ExistingUsers, t \in 1..Len(clients), kw \in UpTo(MaxKeys, ClientKwargs) :
              ~ENABLED (/\ update_client(u, t, kw)
                        /\ last'.outcome = "OK"
                        /\ ~(ClientAsNamed(t, kw) /\ last'.onupdate = {}))

\* C27 (amended): as C27, except that a successful update_client that changes
\* a column of the client also sets the client's last_update to the time of
\* the call; no other field that the call does not name changes.
C27_PartialPatchButLastUpdate ==
    last = AtMenu =>
        /\ OtherPatchesAsNamed
        /\ \A u \in ExistingUsers, t \in 1..Len(clients), kw \in UpTo(MaxKeys, ClientKwargs) :
              ~ENABLED (/\ update_client(u, t, kw)
                        /\ last'.outcome = "OK"
                        /\ ~(/\ ClientAsNamed(t, kw)
                              /\ last'.onupdate \subseteq {"last_update"}
                              /\ last'.onupdate # {} <=> clients'[t] # clients[t]))

C27_Witness ==
    /\ last.op = "update_client"
    /\ last.outcome = "OK"
    /\ last.onupdate = {"last_update"}
    /\ clients[last.target].sales_contact_id = last.actor

----------------------------------------------------------------------------
(* Sessions *)

\* the stored token is a token of SECRET_KEY that has not expired
ValidToken == token_file.kind = "jwt" /\ token_file.exp > now

\* C25: login returns False, issues no token and leaves the session slot as
\* it was, both when the email is unknown and when the password does not
\* verify; it returns True and stores a token for that user only when the
\* email matches a stored user and the password verifies against its hash.
C25_LoginOutcomes ==
    last = AtMenu =>
        \A found \in ExistingUsers \cup {NULL}, verifies \in BOOLEAN :
            ~ENABLED (/\ login(found, verifies)
                      /\ ~(IF found # NULL /\ verifies
                           THEN /\ last'.outcome = "OK"
                                /\ last'.msg = "True"
                                /\ token_file' = Jwt(found, users[found].role, now + TokenLife)
                           ELSE /\ last'.outcome = "OK"
                                /\ last'.msg = "False"
                                /\ token_file' = token_file))

\* C26: get_current_user returns None without raising when the session slot
\* is empty, when the stored token has expired and when it is malformed or
\* wrongly signed; it returns the stored user identified by the token's
\* user_id when the token is valid and unexpired.
C26_CurrentUserResolution ==
    [][(IsCall /\ last'.op = "get_current_user") =>
           /\ last'.outcome = "OK"
           /\ last'.ret = IF ValidToken THEN {token_file.user_id} \cap ExistingUsers ELSE {}]_vars

\* C29: authorization follows the current row of users, not the role frozen
\* in the token: an operation resolved from a still-valid token of user U is
\* allowed or refused by the role and flag U has now, whatever update_user
\* changed since the token was issued; once U is deleted, the still-valid
\* token resolves to no session.
C29_AuthorizationFollowsStore ==
    [][(IsCall /\ ValidToken) =>
           /\ (last'.op = "action_list_users" /\ token_file.user_id \in ExistingUsers) =>
                  last'.outcome = IF \/ users[token_file.user_id].is_superuser
                                     \/ users[token_file.user_id].role = "gestion"
                                  THEN "OK" ELSE "PermissionError"
           /\ (last'.op = "get_current_user" /\ token_file.user_id \notin ExistingUsers) =>
                  (last'.outcome = "OK" /\ last'.ret = {})]_vars

----------------------------------------------------------------------------
(* Concurrency *)

AmountsInOrder(k) == 0 <= k.remaining_amount /\ k.remaining_amount <= k.total_amount

\* C28: when two update_contract calls on one contract overlap (both read and
\* validate against the stored row before either commits, one changing only
\* total_amount, the other only remaining_amount, each writing only the
\* column it changed), every commit leaves 0 <= remaining_amount <=
\* total_amount on a row that satisfied it.
C28_AmountsSurviveInterleaving ==
    [][\A s \in Processes :
           (/\ update_contract_commit(s)
            /\ Keys(sessions[s].dirty) \in {{"total_amount"}, {"remaining_amount"}}
            /\ AmountsInOrder(contracts[sessions[s].contract_id]))
           => AmountsInOrder(contracts'[sessions[s].contract_id])]_vars

====
